---- MODULE Spec2Model ----
(***************************************************************************)
(* Model of the asyncio disruptor (src/disruptor/disruptor.py): a ring     *)
(* buffer shared by producer calls and one worker task per consumer,       *)
(* guarded by one asyncio.Lock and two asyncio.Condition objects built on  *)
(* that lock.                                                              *)
(*                                                                         *)
(* Scheduling is asyncio's: one task runs at a time and control changes    *)
(* hands only at an await that suspends.  Each action below is one such    *)
(* run of a task, from the point where it resumes to the next point where  *)
(* it suspends, returns or raises.  asyncio.Lock is not reentrant and has  *)
(* no owner: acquire() on a free lock sets the flag without suspending,    *)
(* acquire() on a taken lock suspends until some release().                *)
(***************************************************************************)
EXTENDS Integers, Sequences, FiniteSets, TLC

(* ------------------------------ bounds -------------------------------- *)

\* Disruptor(size=...): the ring capacity given to the constructor.
size == 2
\* Number of tasks that call produce().
NumProducers == 1
\* Number of consumer objects that may be registered.
NumConsumers == 2
\* Number of tasks that call close().
NumClosers == 1
\* Batches start with a value in 1..MaxFirst.
MaxFirst == 2

\* Batches handed to produce() are up to one element longer than the ring.
MaxBatchLen == size + 1

\* start_index values tried on a RingBuffer on its own are 0..MaxStart.
MaxStart == 5

Producers == 1..NumProducers
Consumers == 1..NumConsumers
Closers == 1..NumClosers
\* Payload values.
Elements == 1..(MaxFirst + MaxBatchLen)

\* The value of a slot that was never set ([None] * size).
None == 0

Min(a, b) == IF a <= b THEN a ELSE b
Max(a, b) == IF a >= b THEN a ELSE b

(* The element lists a caller may pass to produce(): [], and runs of      *)
(* consecutive values such as [1, 2, 3] and [2, 3].  The code never looks  *)
(* at an element, and distinct values in one batch tell the slots apart.   *)
Batches ==
    {[i \in 1..n |-> first + i - 1] : first \in 1..MaxFirst, n \in 0..MaxBatchLen}

(* --------------------------- Python lists ----------------------------- *)

\* s[a:b] for a, b >= 0 (indices beyond the end are clamped).
Slice(s, a, b) == SubSeq(s, Min(a, Len(s)) + 1, Min(b, Len(s)))

\* s[a:b] = v for a, b >= 0: the slice is replaced by v, whatever its length.
SliceAssign(s, a, b, v) ==
    LET lo == Min(a, Len(s))
        hi == Max(lo, Min(b, Len(s)))
    IN  SubSeq(s, 1, lo) \o v \o SubSeq(s, hi + 1, Len(s))

(* ----------------------------- RingBuffer ----------------------------- *)

\* RingBuffer.__init__: buffer = [None] * size.
RingBufferInit == [i \in 1..size |-> None]

\* RingBuffer.get(index).
get(buf, index) == buf[(index % size) + 1]

\* mget that does not wrap at the end of the list.
mget_nowrap(buf, start_index, count) ==
    LET s_index == start_index % size
    IN  Slice(buf, s_index, s_index + count)

\* RingBuffer.mget(start_index, count).
mget(buf, start_index, count) ==
    LET s_index == start_index % size
    IN  IF s_index + count > size
        THEN Slice(buf, s_index, Len(buf)) \o Slice(buf, 0, (s_index + count) - size)
        ELSE Slice(buf, s_index, s_index + count)

\* mset that starts one slot too far.
mset_shifted(buf, start_index, elems) ==
    LET s_index == (start_index + 1) % size
        n == Len(elems)
    IN  IF s_index + n > size
        THEN SliceAssign(
                 SliceAssign(buf, s_index, size, Slice(elems, 0, size - s_index)),
                 0, n - (size - s_index), Slice(elems, size - s_index, n))
        ELSE SliceAssign(buf, s_index, s_index + n, Slice(elems, 0, n))

\* RingBuffer.mset(start_index, elements): the buffer after the call.
mset(buf, start_index, elems) ==
    LET s_index == start_index % size
        n == Len(elems)
    IN  IF s_index + n > size
        THEN SliceAssign(
                 SliceAssign(buf, s_index, size, Slice(elems, 0, size - s_index)),
                 0, n - (size - s_index), Slice(elems, size - s_index, n))
        ELSE SliceAssign(buf, s_index, s_index + n, Slice(elems, 0, n))

(* ------------------------------- state -------------------------------- *)

VARIABLES
    running,            \* Disruptor.running
    producer_seqnum,    \* Disruptor.producer_seqnum, the producer cursor P
    buffer,             \* Disruptor.ring_buffer.buffer
    consumers,          \* Disruptor.consumers: registered consumers, in order
    seqnum,             \* ConsumerThread.seqnum, the consumer cursor Ci
    locked,             \* RingSynchronizer.lock is taken
    stats_produced,     \* DisruptorStats.produced
    p_pc,               \* where each producer task is in produce()
    elements,           \* produce(): the argument of the call in progress
    produced,           \* produce(): the local counter
    c_pc,               \* where each consumer worker is in run()
    available_count,    \* run(): the local available_count
    to_consume,         \* run(): the local to_consume (<<>> for None)
    consumed_elements,  \* what consume() has been handed, per consumer
    k_pc,               \* where each closing task is in close()
    published,          \* history: every element published, in cursor order
    reg_seqnum,         \* history: producer_seqnum when the consumer registered
    rb,                 \* a RingBuffer on its own: its buffer
    rb_start,           \* the start_index of the last mset on rb
    rb_elems            \* the elements of the last mset on rb

vars == <<running, producer_seqnum, buffer, consumers, seqnum, locked,
          stats_produced, p_pc, elements, produced, c_pc, available_count,
          to_consume, consumed_elements, k_pc, published, reg_seqnum,
          rb, rb_start, rb_elems>>

disruptorVars == <<running, producer_seqnum, buffer, locked, stats_produced, published>>
rosterVars == <<consumers, seqnum, reg_seqnum>>
producerVars == <<p_pc, elements, produced>>
consumerVars == <<c_pc, available_count, to_consume, consumed_elements>>
ringVars == <<rb, rb_start, rb_elems>>

\* Registered consumers, as a set.
Registered == {consumers[i] : i \in 1..Len(consumers)}

\* min(map(lambda c: c.seqnum, self.consumers)), for a non-empty roster.
MinSeqnum ==
    CHOOSE m \in {seqnum[c] : c \in Registered} :
        \A c \in Registered : m <= seqnum[c]

(* Disruptor.__init__; no consumer registered, no call in progress. *)
Init ==
    /\ running = TRUE
    /\ producer_seqnum = 0
    /\ buffer = RingBufferInit
    /\ consumers = <<>>
    /\ seqnum = [c \in Consumers |-> 0]
    /\ locked = FALSE
    /\ stats_produced = 0
    /\ p_pc = [p \in Producers |-> "idle"]
    /\ elements = [p \in Producers |-> <<>>]
    /\ produced = [p \in Producers |-> 0]
    /\ c_pc = [c \in Consumers |-> "unregistered"]
    /\ available_count = [c \in Consumers |-> 0]
    /\ to_consume = [c \in Consumers |-> <<>>]
    /\ consumed_elements = [c \in Consumers |-> <<>>]
    /\ k_pc = [k \in Closers |-> "idle"]
    /\ published = <<>>
    /\ reg_seqnum = [c \in Consumers |-> 0]
    /\ rb = RingBufferInit
    /\ rb_start = 0
    /\ rb_elems = <<>>

(* ------------------------- register_consumer -------------------------- *)

\* A consumer cursor that starts one past the producer cursor.
ConsumerThreadInit_ahead == producer_seqnum + 1

\* ConsumerThread.__init__: self.seqnum = disruptor.producer_seqnum.
ConsumerThreadInit == producer_seqnum

(* Disruptor.register_consumer(consumer): while the disruptor runs, under   *)
(* the lock, a ConsumerThread is created and appended to the roster.  The   *)
(* lock is taken when free and released within the step.                    *)
(* ConsumerThread.__init__ sets the cursor and creates the worker task,     *)
(* which starts at the top of run().                                        *)
RegisterConsumer(c) ==
    /\ running
    /\ ~locked
    /\ c_pc[c] = "unregistered"
    /\ seqnum' = [seqnum EXCEPT ![c] = ConsumerThreadInit]
    /\ reg_seqnum' = [reg_seqnum EXCEPT ![c] = producer_seqnum]
    /\ consumers' = Append(consumers, c)
    /\ c_pc' = [c_pc EXCEPT ![c] = "run"]
    /\ UNCHANGED <<disruptorVars, producerVars, available_count, to_consume,
                   consumed_elements, k_pc, ringVars>>

(* ------------------------------ produce ------------------------------- *)

\* A producer task that is not inside a produce() call.
ProducerFree(p) == p_pc[p] \in {"idle", "returned", "Stopped", "ValueError"}

\* produce() without the running check.
ProduceCall_unchecked(p, elems) ==
    /\ ProducerFree(p)
    /\ p_pc' = [p_pc EXCEPT ![p] = "lag"]
    /\ elements' = [elements EXCEPT ![p] = elems]
    /\ produced' = [produced EXCEPT ![p] = 0]
    /\ UNCHANGED <<disruptorVars, rosterVars, consumerVars, k_pc, ringVars>>

(* produce(elements), up to the first await: the running check, then the   *)
(* lag checkpoint.                                                         *)
ProduceCall(p, elems) ==
    /\ ProducerFree(p)
    /\ IF ~running
       THEN /\ p_pc' = [p_pc EXCEPT ![p] = "Stopped"]
            /\ elements' = [elements EXCEPT ![p] = <<>>]
       ELSE /\ p_pc' = [p_pc EXCEPT ![p] = "lag"]
            /\ elements' = [elements EXCEPT ![p] = elems]
    /\ produced' = [produced EXCEPT ![p] = 0]
    /\ UNCHANGED <<disruptorVars, rosterVars, consumerVars, k_pc, ringVars>>

(* _unsafe_report_lag() returns in produce(); produced = 0 and the task    *)
(* reaches the while loop.                                                 *)
ProduceReportLag(p) ==
    /\ p_pc[p] = "lag"
    /\ p_pc' = [p_pc EXCEPT ![p] = "loop"]
    /\ produced' = [produced EXCEPT ![p] = 0]
    /\ UNCHANGED <<elements, disruptorVars, rosterVars, consumerVars, k_pc, ringVars>>

\* can_produce that counts one slot too many.
can_produce_off_by_one == size + 1 - producer_seqnum + MinSeqnum

\* can_produce, computed under the lock for a non-empty roster.
can_produce == size - producer_seqnum + MinSeqnum

\* A round of produce() that writes without taking the lock.
ProduceRound_unlocked(p) ==
    /\ p_pc[p] = "loop"
    /\ produced[p] < Len(elements[p])
    /\ consumers # <<>>
    /\ can_produce > 0
    /\ LET to_produce_cnt == Min(can_produce, Len(elements[p]) - produced[p])
           chunk == Slice(elements[p], produced[p], produced[p] + to_produce_cnt)
       IN  /\ buffer' = mset(buffer, producer_seqnum, chunk)
           /\ produced' = [produced EXCEPT ![p] = @ + to_produce_cnt]
           /\ producer_seqnum' = producer_seqnum + to_produce_cnt
           /\ published' = published \o chunk
    /\ UNCHANGED <<p_pc, elements, locked, running, stats_produced, rosterVars,
                   consumerVars, k_pc, ringVars>>

(* One round of the while loop of produce(): the lock is free and is taken *)
(* without suspending.  With an empty roster min() raises ValueError, which *)
(* leaves the async-with block (releasing the lock) and the call.  With a  *)
(* full ring the task calls await_consumption(); otherwise it writes the   *)
(* next elements, advances the cursor and calls notify_production().  Both *)
(* start with "async with <condition>", which acquires the lock the task   *)
(* already holds: the task suspends there with the lock taken.             *)
ProduceRound(p) ==
    /\ p_pc[p] = "loop"
    /\ produced[p] < Len(elements[p])
    /\ ~locked
    /\ IF consumers = <<>>
       THEN /\ p_pc' = [p_pc EXCEPT ![p] = "ValueError"]
            /\ elements' = [elements EXCEPT ![p] = <<>>]
            /\ produced' = [produced EXCEPT ![p] = 0]
            /\ UNCHANGED <<locked, buffer, producer_seqnum, published>>
       ELSE IF can_produce <= 0
       THEN /\ locked' = TRUE
            /\ p_pc' = [p_pc EXCEPT ![p] = "await_consumption"]
            /\ UNCHANGED <<elements, produced, buffer, producer_seqnum, published>>
       ELSE LET to_produce_cnt == Min(can_produce, Len(elements[p]) - produced[p])
                chunk == Slice(elements[p], produced[p], produced[p] + to_produce_cnt)
            IN  /\ buffer' = mset(buffer, producer_seqnum, chunk)
                /\ produced' = [produced EXCEPT ![p] = @ + to_produce_cnt]
                /\ producer_seqnum' = producer_seqnum + to_produce_cnt
                /\ published' = published \o chunk
                /\ locked' = TRUE
                /\ p_pc' = [p_pc EXCEPT ![p] = "notify_production"]
                /\ UNCHANGED elements
    /\ UNCHANGED <<running, stats_produced, rosterVars, consumerVars, k_pc, ringVars>>

(* The while loop of produce() ends: report_p_produced(produced), return.  *)
ProduceReturn(p) ==
    /\ p_pc[p] = "loop"
    /\ produced[p] >= Len(elements[p])
    /\ stats_produced' = stats_produced + produced[p]
    /\ p_pc' = [p_pc EXCEPT ![p] = "returned"]
    /\ elements' = [elements EXCEPT ![p] = <<>>]
    /\ produced' = [produced EXCEPT ![p] = 0]
    /\ UNCHANGED <<running, producer_seqnum, buffer, locked, published,
                   rosterVars, consumerVars, k_pc, ringVars>>

(* -------------------------- ConsumerThread.run ------------------------ *)

(* The outer while of run(): while running, call _unsafe_report_lag();     *)
(* once stopped, go on to the drain block, which starts by taking the lock. *)
ConsumerLoop(c) ==
    /\ c_pc[c] = "run"
    /\ c_pc' = [c_pc EXCEPT ![c] = IF running THEN "lag" ELSE "drain"]
    /\ available_count' = [available_count EXCEPT ![c] = 0]
    /\ to_consume' = [to_consume EXCEPT ![c] = <<>>]
    /\ UNCHANGED <<disruptorVars, rosterVars, producerVars, consumed_elements, k_pc, ringVars>>

(* _unsafe_report_lag() returns in run().  The inner while tests           *)
(* available_count == 0 and running: if it holds the task goes to take the *)
(* lock; if the disruptor stopped meanwhile, _consume_safe(None) does      *)
(* nothing and the task goes to take the lock of the cursor update.        *)
ConsumerLagDone(c) ==
    /\ c_pc[c] = "lag"
    /\ c_pc' = [c_pc EXCEPT ![c] =
                    IF available_count[c] = 0 /\ running THEN "fetch" ELSE "advance"]
    /\ UNCHANGED <<available_count, to_consume, disruptorVars, rosterVars,
                   producerVars, consumed_elements, k_pc, ringVars>>

(* The body of the inner while, with the lock free: available_count is     *)
(* computed.  If it is positive the batch is read with mget, the lock is   *)
(* released and _consume_safe hands the batch to consumer.consume(), all   *)
(* without suspending; the task is then inside the callback.  If it is     *)
(* zero the task calls await_production(), whose "async with               *)
(* produced_condition" acquires the lock the task holds: it suspends there *)
(* with the lock taken.                                                    *)
ConsumerFetch(c) ==
    /\ c_pc[c] = "fetch"
    /\ ~locked
    /\ LET avail == producer_seqnum - seqnum[c]
       IN  /\ available_count' = [available_count EXCEPT ![c] = avail]
           /\ IF avail > 0
              THEN /\ to_consume' = [to_consume EXCEPT ![c] = mget(buffer, seqnum[c], avail)]
                   /\ consumed_elements' = [consumed_elements EXCEPT ![c] =
                                                @ \o mget(buffer, seqnum[c], avail)]
                   /\ c_pc' = [c_pc EXCEPT ![c] = "consume"]
                   /\ UNCHANGED locked
              ELSE /\ locked' = TRUE
                   /\ c_pc' = [c_pc EXCEPT ![c] = "await_production"]
                   /\ UNCHANGED <<to_consume, consumed_elements>>
    /\ UNCHANGED <<running, producer_seqnum, buffer, stats_produced, published,
                   rosterVars, producerVars, k_pc, ringVars>>

(* -------------------------------- close ------------------------------- *)

\* close() whose notify_production() returns and lets go of the lock.
CloseCall_releases(k) ==
    /\ k_pc[k] = "idle"
    /\ ~locked
    /\ running' = FALSE
    /\ k_pc' = [k_pc EXCEPT ![k] = "join"]
    /\ UNCHANGED <<locked, producer_seqnum, buffer, stats_produced, published,
                   rosterVars, producerVars, consumerVars, ringVars>>

(* close() with the lock free: if running, the flag is cleared and          *)
(* notify_production() is called under the lock; its "async with            *)
(* produced_condition" acquires the lock the task holds, so the task        *)
(* suspends there with the lock taken.  If already stopped, the lock is     *)
(* released and the task goes on to wait for the workers.                   *)
CloseCall(k) ==
    /\ k_pc[k] = "idle"
    /\ ~locked
    /\ IF running
       THEN /\ running' = FALSE
            /\ locked' = TRUE
            /\ k_pc' = [k_pc EXCEPT ![k] = "notify_production"]
       ELSE /\ k_pc' = [k_pc EXCEPT ![k] = "join"]
            /\ UNCHANGED <<running, locked>>
    /\ UNCHANGED <<producer_seqnum, buffer, stats_produced, published,
                   rosterVars, producerVars, consumerVars, ringVars>>

(* --------------------------- specification ---------------------------- *)

Next ==
    \/ \E c \in Consumers : RegisterConsumer(c)
    \/ \E p \in Producers, elems \in Batches : ProduceCall(p, elems)
    \/ \E p \in Producers : ProduceReportLag(p)
    \/ \E p \in Producers : ProduceRound(p)
    \/ \E p \in Producers : ProduceReturn(p)
    \/ \E c \in Consumers : ConsumerLoop(c)
    \/ \E c \in Consumers : ConsumerLagDone(c)
    \/ \E c \in Consumers : ConsumerFetch(c)
    \/ \E k \in Closers : CloseCall(k)

Spec == Init /\ [][Next]_vars

(* The event loop runs every task that is ready: each step of a task that  *)
(* is enabled is eventually taken.  Calls from the outside (register,      *)
(* produce, close) are not forced.                                         *)
TaskStep ==
    \/ \E p \in Producers : ProduceReportLag(p) \/ ProduceRound(p) \/ ProduceReturn(p)
    \/ \E c \in Consumers : ConsumerLoop(c) \/ ConsumerLagDone(c) \/ ConsumerFetch(c)

FairSpec == Spec /\ WF_vars(TaskStep)

(* ------------------------ a RingBuffer on its own --------------------- *)

\* The element lists mset is given: at most size elements.
RingElems == {b \in Batches : Len(b) <= size}

(* rb.mset(start, elems) on a ring that holds what earlier calls left.     *)
RingMset(start, elems) ==
    /\ rb' = mset(rb, start, elems)
    /\ rb_start' = start
    /\ rb_elems' = elems
    /\ UNCHANGED <<disruptorVars, rosterVars, producerVars, consumerVars, k_pc>>

RingNext == \E start \in 0..MaxStart, elems \in RingElems : RingMset(start, elems)

\* RingBuffer(size) followed by any sequence of mset calls.
RingSpec == Init /\ [][RingNext]_vars

TypeOK ==
    /\ running \in BOOLEAN
    /\ locked \in BOOLEAN
    /\ producer_seqnum \in Nat
    /\ Len(buffer) = size
    /\ Len(published) = producer_seqnum

(* --------------------- what the tasks never reach --------------------- *)

\* Tasks suspended inside an "async with <condition>" entered under the lock.
SelfBlocked ==
    {<<"producer", p>> : p \in {q \in Producers :
                                    p_pc[q] \in {"notify_production", "await_consumption"}}}
    \cup {<<"consumer", c>> : c \in {d \in Consumers : c_pc[d] = "await_production"}}
    \cup {<<"closer", k>> : k \in {j \in Closers : k_pc[j] = "notify_production"}}

(* The lock is taken exactly when one task is suspended re-acquiring it;   *)
(* the cursor moves and the flag falls only in a step that leaves the lock *)
(* taken; no worker ever gets a batch, and close() never gets past its     *)
(* locked block.  The steps of run() after "consume", "advance" and        *)
(* "drain", and the part of close() after "join", are therefore never      *)
(* taken and are not part of Next.                                         *)
LockedIffSelfBlocked == locked <=> Cardinality(SelfBlocked) = 1
PublishedImpliesLocked == (producer_seqnum > 0 \/ ~running) => locked
NoBatchFetched == \A c \in Consumers : c_pc[c] # "consume" /\ consumed_elements[c] = <<>>
NoCloseJoin == \A k \in Closers : k_pc[k] # "join"
NeverReleased == [][locked => locked']_vars

(* A worker that has left its main loop stands at the "async with" of the  *)
(* drain block (line 367) while close() holds the lock, with nothing       *)
(* published: the drain block itself is never entered.                     *)
DrainBlocked ==
    \A c \in Consumers :
        c_pc[c] = "drain" =>
            /\ locked /\ ~running
            /\ \E k \in Closers : k_pc[k] = "notify_production"
            /\ producer_seqnum = 0 /\ seqnum[c] = 0

(* ------------------------------- claims ------------------------------- *)

\* s is an infix of t.
IsInfix(s, t) ==
    \E i \in 0..(Len(t) - Len(s)) : SubSeq(t, i + 1, i + Len(s)) = s

(* C1: backpressure.  Whenever a consumer is registered, the producer      *)
(* cursor is ahead of the smallest consumer cursor by at most the ring     *)
(* capacity.  Stated for every reachable state, which covers the states in *)
(* which no task holds the lock.                                           *)
C1_Backpressure ==
    consumers # <<>> => producer_seqnum - MinSeqnum <= size

\* C1 witness: a produce round has filled the ring up to the slowest consumer.
C1_RingFull ==
    /\ consumers # <<>>
    /\ producer_seqnum > 0
    /\ producer_seqnum - MinSeqnum = size

(* C2: no unconsumed slot is overwritten.  For every registered consumer i *)
(* and every sequence number s with Ci <= s < P, slot s mod size holds the *)
(* element published at s; a worker inside consume() holds as its batch    *)
(* the elements published at Ci .. Ci + available_count - 1.               *)
C2_NoOverwrite ==
    \A c \in Registered :
        /\ \A s \in seqnum[c]..(producer_seqnum - 1) :
               get(buffer, s) = published[s + 1]
        /\ c_pc[c] = "consume" =>
               to_consume[c] = SubSeq(published, seqnum[c] + 1,
                                      seqnum[c] + available_count[c])

\* C2 witness: every slot of the ring holds an element a consumer has not consumed.
C2_AllSlotsUnconsumed ==
    \E c \in Registered :
        /\ seqnum[c] = 0
        /\ producer_seqnum = size
        /\ \A s \in 0..(size - 1) : get(buffer, s) \in Elements

(* C3: ordered, gap-free, duplicate-free delivery.  For a registered       *)
(* consumer, the k-th element handed to consume() is the element published *)
(* at sequence (cursor value at registration) + k - 1, and every published *)
(* position from there on is eventually handed over (size 2, produce       *)
(* [1,2] gives [1,2]).                                                     *)
C3_DeliveredInOrder ==
    \A c \in Consumers : \A s \in 0..size :
        (c \in Registered /\ reg_seqnum[c] <= s /\ s < producer_seqnum)
            ~> (/\ reg_seqnum[c] <= s /\ s < producer_seqnum
                /\ Len(consumed_elements[c]) > s - reg_seqnum[c]
                /\ consumed_elements[c][s - reg_seqnum[c] + 1] = published[s + 1])

(* C4: eventual broadcast delivery while running.  After a produce(batch)  *)
(* call has passed its running check, every consumer registered by then is *)
(* eventually handed the whole batch, contiguous and in order, unless      *)
(* close() is called.                                                      *)
C4_BatchDelivered ==
    \A p \in Producers : \A c \in Consumers : \A b \in Batches :
        (p_pc[p] = "lag" /\ elements[p] = b /\ c \in Registered)
            ~> (~running \/ IsInfix(b, consumed_elements[c]))

(* C5: producer forward progress.  A produce() call that has passed its    *)
(* running check with a consumer registered eventually returns, unless     *)
(* close() is called.                                                      *)
C5_ProduceReturns ==
    \A p \in Producers :
        (p_pc[p] = "lag" /\ consumers # <<>>)
            ~> (p_pc[p] = "returned" \/ ~running)

(* C7: late join without backfill.  A consumer registered at cursor value  *)
(* P0 has Ci >= P0, and once an element is published at P0 the first       *)
(* element it is handed is that one.                                       *)
C7_StreamStartsAtRegistration ==
    \A c \in Consumers :
        (c \in Registered /\ producer_seqnum > reg_seqnum[c])
            ~> (/\ seqnum[c] >= reg_seqnum[c]
                /\ producer_seqnum > reg_seqnum[c]
                /\ consumed_elements[c] # <<>>
                /\ consumed_elements[c][1] = published[reg_seqnum[c] + 1])

(* C8: produce after close is rejected.  A produce() call that begins when *)
(* the running flag is down ends with Stopped, and the step changes        *)
(* neither the producer cursor, nor the ring, nor a consumer cursor, nor   *)
(* the produced counter.                                                   *)
C8_ProduceAfterCloseRejected ==
    [][\A p \in Producers :
           (~running /\ ProducerFree(p) /\ p_pc'[p] # p_pc[p])
               => /\ p_pc'[p] = "Stopped"
                  /\ UNCHANGED <<producer_seqnum, buffer, seqnum, stats_produced>>]_vars

\* C8 witness: a produce() call made after close() was rejected with Stopped.
C8_Rejected ==
    /\ ~running
    /\ \E p \in Producers : p_pc[p] = "Stopped"

(* C9: produce with no consumer registered.  A round of produce() of a     *)
(* non-empty batch that runs with an empty roster publishes elements,      *)
(* advances the producer cursor and raises no error.                       *)
C9_ProduceWithoutConsumers ==
    [][\A p \in Producers :
           (/\ p_pc[p] = "loop"
            /\ produced[p] < Len(elements[p])
            /\ consumers = <<>>
            /\ p_pc'[p] # "loop")
               => /\ producer_seqnum' > producer_seqnum
                  /\ p_pc'[p] # "ValueError"]_vars

(* C19: RingBuffer batch operations agree with the single-slot ones across *)
(* the wrap point.  After mset(start, elems) with at most size elements,   *)
(* mget(start, n) returns elems in order, every mget(st, cnt) equals       *)
(* [get(st + k) for k in 0..cnt-1], the list keeps its length, and the     *)
(* slots other than (start + k) mod size, k in 0..n-1, are unchanged.      *)
C19_RingBatchOps ==
    [][LET n == Len(rb_elems')
       IN  /\ Len(rb') = size
           /\ mget(rb', rb_start', n) = rb_elems'
           /\ \A st \in 0..MaxStart : \A cnt \in 0..size :
                  mget(rb', st, cnt) = [k \in 1..cnt |-> get(rb', st + k - 1)]
           /\ \A i \in 0..(size - 1) :
                  i \notin {(rb_start' + k) % size : k \in 0..(n - 1)}
                      => get(rb', i) = get(rb, i)]_ringVars

\* C19 witness: a full-length mset that started past the first lap and wrapped.
C19_WrappedWrite ==
    /\ rb_start > size
    /\ Len(rb_elems) = size
    /\ (rb_start % size) + Len(rb_elems) > size
    /\ mget(rb, rb_start, size) = rb_elems

(* C15: condition waits and notifications do not block on the mutex their  *)
(* caller holds.  No task is ever suspended inside await_production,       *)
(* await_consumption, notify_production or notify_consumption acquiring    *)
(* the lock that it holds itself.                                          *)
C15_NoSelfDeadlock == SelfBlocked = {}

C17_CloseTerminates ==
    (~running) ~> (/\ \A c \in Registered : c_pc[c] = "closed"
                   /\ \A k \in Closers : k_pc[k] \in {"idle", "returned"})

(* C18: cursor bounds and monotonicity.  In every reachable state          *)
(* 0 <= Ci <= P for every registered consumer i, and no step decreases P   *)
(* or the cursor of a registered consumer.                                 *)
C18_CursorBounds ==
    /\ [](\A c \in Registered : 0 <= seqnum[c] /\ seqnum[c] <= producer_seqnum)
    /\ [][/\ producer_seqnum' >= producer_seqnum
          /\ \A c \in Registered : seqnum'[c] >= seqnum[c]]_vars

\* C18 witness: the producer cursor has moved ahead of a registered consumer.
C18_ConsumerBehind ==
    \E c \in Registered : 0 <= seqnum[c] /\ seqnum[c] < producer_seqnum

(* C20: once the running flag is down, the producer cursor does not        *)
(* increase and no ring slot is written, also with a produce() call in     *)
(* progress that passed its running check before close().                  *)
C20_NoPublishAfterStop ==
    [][~running => /\ producer_seqnum' = producer_seqnum
                   /\ buffer' = buffer
                   /\ ~running']_vars

\* C20 witness: close() ran while a produce() call with elements left was in progress.
C20_StoppedDuringProduce ==
    /\ ~running
    /\ \E p \in Producers :
           /\ p_pc[p] \in {"lag", "loop"}
           /\ produced[p] < Len(elements[p])
    /\ consumers # <<>>

====
